---- MODULE Spec2Model ----
(***************************************************************************)
(* Model of the SpicyFoodList lesson component: an array of food records   *)
(* held in React state, the record sources of the two data modules, and    *)
(* the click handlers that replace the array (add / remove / update) and   *)
(* the cuisine filter.                                                     *)
(*                                                                         *)
(* JavaScript arrays and objects are reference values, so the model keeps  *)
(* two heaps: objs (object reference -> record) and arrs (array reference  *)
(* -> sequence of object references).  A reference is an index into its    *)
(* heap; the value undefined is the reference 0.                           *)
(***************************************************************************)
EXTENDS Integers, Sequences, FiniteSets, TLC

\* Number of handler invocations explored after the component mounts.
MaxOps == 4

\* The value `undefined` (what Array.prototype.shift returns on an empty array).
Undefined == 0
UndefinedVal == [undefined |-> TRUE]

\* The <option> values of the filter <select>.
FilterOptions == <<"All", "American", "Sichuan", "Thai", "Mexican">>

\* Which SpicyFoodList is mounted: the file src/components/SpicyFoodList.js,
\* or the component the README builds from it (README handlers).
Components == {"SpicyFoodList.js", "README"}

\* Which data module is imported as "../data".
DataModules == {"getNewSpicyFood", "getNewRandomSpicyFood"}

VARIABLES
  component,     \* which version of the component is mounted
  data,          \* which data module backs it
  objs,          \* object heap
  arrs,          \* array heap
  foods,         \* state variable foods: a reference into arrs
  filterBy,      \* state variable filterBy
  nextId,        \* module-level counter of the random data module
  crashed,       \* a render threw: the component tree is unmounted
  foodsB,        \* state variable foods of a second mounted instance (0: none)
  crashedB,      \* a render of the second instance threw
  history        \* one entry per render / handler invocation

vars == <<component, data, objs, arrs, foods, filterBy, nextId, crashed,
          foodsB, crashedB, history>>

\* Arguments handleLiClick is invoked with: the id of any food of the
\* current collection (each has an <li> passing its food.id), the id of a
\* food that an earlier collection held, and the id 999 that no record ever
\* has.
ClickIds ==
  UNION { {history[h].vals[j].id :
             j \in {m \in 1..Len(history[h].vals) :
                      "id" \in DOMAIN history[h].vals[m]}} :
          h \in 1..Len(history) }
  \cup {999}

\* Array references fixed at module load.
spicyFoods == 1
newSpicyFoods == 2

----------------------------------------------------------------------------
\* Heap access

Deref(O, o) == IF o = Undefined THEN UndefinedVal ELSE O[o]

DeepVals(O, elems) == [i \in 1..Len(elems) |-> Deref(O, elems[i])]

IsRecord(O, o) == o # Undefined /\ "id" \in DOMAIN O[o]

----------------------------------------------------------------------------
\* The data modules

\* spicyFoods, identical in both data modules.
SeedObjs ==
  << [id |-> 1, name |-> "Buffalo Wings", cuisine |-> "American", heatLevel |-> 3],
     [id |-> 2, name |-> "Mapo Tofu", cuisine |-> "Sichuan", heatLevel |-> 6] >>

\* newSpicyFoods of the queue module: records that already carry their id.
QueuePoolObjs ==
  << [id |-> 3, name |-> "Green Curry", cuisine |-> "Thai", heatLevel |-> 9],
     [id |-> 4, name |-> "Enchiladas", cuisine |-> "Mexican", heatLevel |-> 2],
     [id |-> 5, name |-> "5 Alarm Chili", cuisine |-> "American", heatLevel |-> 5] >>

\* newSpicyFoods of the random module: entries without an id.
RandomPoolObjs ==
  << [name |-> "Green Curry", cuisine |-> "Thai", heatLevel |-> 9],
     [name |-> "Enchiladas", cuisine |-> "Mexican", heatLevel |-> 2],
     [name |-> "5 Alarm Chili", cuisine |-> "American", heatLevel |-> 5] >>

\* let nextId = 3
InitNextId == 3

\* Object `o` with property `id` assigned: every own property is kept.
AssignId(o, n) ==
  [f \in (DOMAIN o) \cup {"id"} |-> IF f = "id" THEN n ELSE o[f]]

\* Variant: the first pool element is returned but never removed.
getNewSpicyFoodNoShift(A) ==
  IF Len(A[newSpicyFoods]) = 0
    THEN [ret |-> Undefined, arrs |-> A]
    ELSE [ret |-> Head(A[newSpicyFoods]), arrs |-> A]

\* Variant: newSpicyFoods.pop().
getNewSpicyFoodPop(A) ==
  IF Len(A[newSpicyFoods]) = 0
    THEN [ret |-> Undefined, arrs |-> A]
    ELSE [ret |-> A[newSpicyFoods][Len(A[newSpicyFoods])],
          arrs |-> [A EXCEPT ![newSpicyFoods] = SubSeq(@, 1, Len(@) - 1)]]

\* newSpicyFoods.shift(): removes and returns the first element of the pool,
\* or returns undefined and leaves the empty pool alone.
getNewSpicyFood(A) ==
  IF Len(A[newSpicyFoods]) = 0
    THEN [ret |-> Undefined, arrs |-> A]
    ELSE [ret |-> Head(A[newSpicyFoods]),
          arrs |-> [A EXCEPT ![newSpicyFoods] = Tail(@)]]

\* Variant: nextId++ is missing.
getNewRandomSpicyFoodNoIncrement(O, A, n, index) ==
  LET newSpicyFood == AssignId(O[A[newSpicyFoods][index + 1]], n)
  IN  [ret |-> Len(O) + 1, objs |-> Append(O, newSpicyFood), nextId |-> n]

\* Variant: the pool entry itself gets the id and is returned (no copy).
getNewRandomSpicyFoodNoCopy(O, A, n, index) ==
  LET o == A[newSpicyFoods][index + 1]
  IN  [ret |-> o, objs |-> [O EXCEPT ![o] = AssignId(O[o], n)], nextId |-> n + 1]

\* A shallow copy of the pool entry at `index` (0-based) gets id n; the
\* counter moves on.
getNewRandomSpicyFood(O, A, n, index) ==
  LET newSpicyFood == AssignId(O[A[newSpicyFoods][index + 1]], n)
  IN  [ret |-> Len(O) + 1, objs |-> Append(O, newSpicyFood), nextId |-> n + 1]

----------------------------------------------------------------------------
\* Array computations of the handlers

\* Variant: [newFood, ...foods].
addFoodPrepend(A, f, newFood) ==
  [arrs |-> Append(A, <<newFood>> \o A[f]), foods |-> Len(A) + 1]

\* Variant: foods.push(newFood); setFoods(foods).
addFoodPush(A, f, newFood) ==
  [arrs |-> [A EXCEPT ![f] = Append(@, newFood)], foods |-> f]

\* [...foods, newFood]; setFoods(newFoodArray): a fresh array holding the
\* elements of foods followed by newFood becomes the state.
addFood(A, f, newFood) ==
  [arrs |-> Append(A, Append(A[f], newFood)), foods |-> Len(A) + 1]

\* Variant: food.id === id.
RECURSIVE filterNotIdEq(_, _, _, _, _)
filterNotIdEq(O, elems, id, i, out) ==
  IF i > Len(elems) THEN out
  ELSE filterNotIdEq(O, elems, id, i + 1,
         IF O[elems[i]].id = id THEN Append(out, elems[i]) ELSE out)

\* Variant: foods.filter((food, index) => index !== id), index 0-based.
RECURSIVE filterNotIdIndex(_, _, _, _, _)
filterNotIdIndex(O, elems, id, i, out) ==
  IF i > Len(elems) THEN out
  ELSE filterNotIdIndex(O, elems, id, i + 1,
         IF i - 1 # id THEN Append(out, elems[i]) ELSE out)

\* foods.filter((food) => food.id !== id), element by element from index i.
RECURSIVE filterNotId(_, _, _, _, _)
filterNotId(O, elems, id, i, out) ==
  IF i > Len(elems) THEN out
  ELSE filterNotId(O, elems, id, i + 1,
         IF O[elems[i]].id # id THEN Append(out, elems[i]) ELSE out)

removeFood(O, A, f, id) ==
  [arrs |-> Append(A, filterNotId(O, A[f], id, 1, <<>>)), foods |-> Len(A) + 1]

\* Variant: every food gets its heat level incremented.
RECURSIVE mapHeatAll(_, _, _, _, _)
mapHeatAll(O, elems, id, i, out) ==
  IF i > Len(elems) THEN [objs |-> O, elems |-> out]
  ELSE mapHeatAll(Append(O, [O[elems[i]] EXCEPT !.heatLevel = @ + 1]),
                  elems, id, i + 1, Append(out, Len(O) + 1))

\* Variant: food.id !== id.
RECURSIVE mapHeatNeq(_, _, _, _, _)
mapHeatNeq(O, elems, id, i, out) ==
  IF i > Len(elems) THEN [objs |-> O, elems |-> out]
  ELSE IF O[elems[i]].id # id
    THEN mapHeatNeq(Append(O, [O[elems[i]] EXCEPT !.heatLevel = @ + 1]),
                    elems, id, i + 1, Append(out, Len(O) + 1))
    ELSE mapHeatNeq(O, elems, id, i + 1, Append(out, elems[i]))

\* foods.map(...): a matching food is replaced by a new object
\* {...food, heatLevel: food.heatLevel + 1}; any other food is returned as is.
RECURSIVE mapHeat(_, _, _, _, _)
mapHeat(O, elems, id, i, out) ==
  IF i > Len(elems) THEN [objs |-> O, elems |-> out]
  ELSE IF O[elems[i]].id = id
    THEN mapHeat(Append(O, [O[elems[i]] EXCEPT !.heatLevel = @ + 1]),
                 elems, id, i + 1, Append(out, Len(O) + 1))
    ELSE mapHeat(O, elems, id, i + 1, Append(out, elems[i]))

updateFood(O, A, f, id) ==
  LET m == mapHeat(O, A[f], id, 1, <<>>)
  IN  [objs |-> m.objs, arrs |-> Append(A, m.elems), foods |-> Len(A) + 1]

\* Variant: the "All" case is missing.
RECURSIVE filterCuisineNoAll(_, _, _, _, _)
filterCuisineNoAll(O, elems, fb, i, out) ==
  IF i > Len(elems) THEN out
  ELSE filterCuisineNoAll(O, elems, fb, i + 1,
         IF O[elems[i]].cuisine = fb THEN Append(out, elems[i]) ELSE out)

\* foods.filter(...) of the view: every food when filterBy is "All",
\* otherwise the foods whose cuisine is filterBy.
RECURSIVE filterCuisine(_, _, _, _, _)
filterCuisine(O, elems, fb, i, out) ==
  IF i > Len(elems) THEN out
  ELSE filterCuisine(O, elems, fb, i + 1,
         IF fb = "All" THEN Append(out, elems[i])
         ELSE IF O[elems[i]].cuisine = fb THEN Append(out, elems[i]) ELSE out)

foodsToDisplay == filterCuisine(objs, arrs[foods], filterBy, 1, <<>>)

\* Rendering reads food.id, food.name, ... of every listed element: an
\* undefined element makes the render throw a TypeError.
renderThrows(elems) == \E i \in 1..Len(elems) : elems[i] = Undefined

----------------------------------------------------------------------------
\* History of renders and handler invocations

Entry(op, id, newFood, value, O, A, f) ==
  [op |-> op, id |-> id, newFood |-> newFood, value |-> value,
   ref |-> f, elems |-> A[f], vals |-> DeepVals(O, A[f])]

Last == history[Len(history)]
Prev == history[Len(history) - 1]

----------------------------------------------------------------------------
\* Initial state: the data module is loaded and the component has mounted
\* with useState(spicyFoods) (and useState("All")).

Init ==
  /\ component \in Components
  /\ data \in DataModules
  /\ component = "SpicyFoodList.js" => data = "getNewSpicyFood"
  /\ objs = SeedObjs \o (IF data = "getNewSpicyFood" THEN QueuePoolObjs
                                                      ELSE RandomPoolObjs)
  /\ arrs = << <<1, 2>>, <<3, 4, 5>> >>
  /\ foods = spicyFoods
  /\ filterBy = "All"
  /\ nextId = IF data = "getNewRandomSpicyFood" THEN InitNextId ELSE 0
  /\ crashed = FALSE
  /\ foodsB = 0
  /\ crashedB = FALSE
  /\ history = << Entry("mount", 0, 0, "", objs, arrs, foods) >>

CanClick == ~crashed /\ Len(history) <= MaxOps

\* src/components/SpicyFoodList.js: the new food is drawn and logged; no
\* state is set.
handleAddFood ==
  /\ CanClick
  /\ component = "SpicyFoodList.js"
  /\ LET r == getNewSpicyFood(arrs)
     IN  /\ arrs' = r.arrs
         /\ history' = Append(history,
                         Entry("log", 0, r.ret, "", objs, r.arrs, foods))
  /\ UNCHANGED <<foodsB, crashedB, component, data, objs, foods, filterBy, nextId, crashed>>

\* README handleAddFood with the queue module.
handleAddFoodQueue ==
  /\ CanClick
  /\ component = "README"
  /\ data = "getNewSpicyFood"
  /\ LET r == getNewSpicyFood(arrs)
         n == addFood(r.arrs, foods, r.ret)
     IN  /\ arrs' = n.arrs
         /\ foods' = n.foods
         /\ crashed' = renderThrows(n.arrs[n.foods])
         /\ history' = Append(history,
                         Entry("add", 0, r.ret, "", objs, n.arrs, n.foods))
  /\ UNCHANGED <<foodsB, crashedB, component, data, objs, filterBy, nextId>>

\* README handleAddFood with the random module.
handleAddFoodRandom ==
  /\ CanClick
  /\ component = "README"
  /\ data = "getNewRandomSpicyFood"
  /\ \E index \in 0..(Len(arrs[newSpicyFoods]) - 1) :
       LET r == getNewRandomSpicyFood(objs, arrs, nextId, index)
           n == addFood(arrs, foods, r.ret)
       IN  /\ objs' = r.objs
           /\ nextId' = r.nextId
           /\ arrs' = n.arrs
           /\ foods' = n.foods
           /\ crashed' = renderThrows(n.arrs[n.foods])
           /\ history' = Append(history,
                           Entry("add", 0, r.ret, "", r.objs, n.arrs, n.foods))
  /\ UNCHANGED <<foodsB, crashedB, component, data, filterBy>>

\* README handleLiClick, removing version.
handleLiClickRemove ==
  /\ CanClick
  /\ component = "README"
  /\ \E id \in ClickIds :
       LET n == removeFood(objs, arrs, foods, id)
       IN  /\ arrs' = n.arrs
           /\ foods' = n.foods
           /\ crashed' = renderThrows(n.arrs[n.foods])
           /\ history' = Append(history,
                           Entry("remove", id, 0, "", objs, n.arrs, n.foods))
  /\ UNCHANGED <<foodsB, crashedB, component, data, objs, filterBy, nextId>>

\* README handleLiClick, updating version.
handleLiClickUpdate ==
  /\ CanClick
  /\ component = "README"
  /\ \E id \in ClickIds :
       LET n == updateFood(objs, arrs, foods, id)
       IN  /\ objs' = n.objs
           /\ arrs' = n.arrs
           /\ foods' = n.foods
           /\ crashed' = renderThrows(n.arrs[n.foods])
           /\ history' = Append(history,
                           Entry("update", id, 0, "", n.objs, n.arrs, n.foods))
  /\ UNCHANGED <<foodsB, crashedB, component, data, filterBy, nextId>>

\* Variant: the selection is stored only while the filter is still "All".
handleFilterChangeOnce ==
  /\ CanClick
  /\ component = "README"
  /\ \E k \in 1..Len(FilterOptions) :
       /\ filterBy' = IF filterBy = "All" THEN FilterOptions[k] ELSE filterBy
       /\ history' = Append(history,
                       Entry("filter", 0, 0, FilterOptions[k], objs, arrs, foods))
  /\ UNCHANGED <<foodsB, crashedB, component, data, objs, arrs, foods, nextId, crashed>>

\* README handleFilterChange: setFilterBy(event.target.value).
handleFilterChange ==
  /\ CanClick
  /\ component = "README"
  /\ \E k \in 1..Len(FilterOptions) :
       /\ filterBy' = FilterOptions[k]
       /\ history' = Append(history,
                       Entry("filter", 0, 0, FilterOptions[k], objs, arrs, foods))
  /\ UNCHANGED <<foodsB, crashedB, component, data, objs, arrs, foods, nextId, crashed>>

Next ==
  \/ handleAddFood
  \/ handleAddFoodQueue
  \/ handleAddFoodRandom
  \/ handleLiClickRemove
  \/ handleLiClickUpdate
  \/ handleFilterChange

Spec == Init /\ [][Next]_vars

----------------------------------------------------------------------------
\* Two mounted instances of the README component.  Each has its own foods
\* state, seeded with the same spicyFoods array; both import the same data
\* module, so newSpicyFoods and nextId are shared.

InitShared ==
  /\ component = "README"
  /\ data \in DataModules
  /\ objs = SeedObjs \o (IF data = "getNewSpicyFood" THEN QueuePoolObjs
                                                      ELSE RandomPoolObjs)
  /\ arrs = << <<1, 2>>, <<3, 4, 5>> >>
  /\ foods = spicyFoods
  /\ filterBy = "All"
  /\ nextId = IF data = "getNewRandomSpicyFood" THEN InitNextId ELSE 0
  /\ crashed = FALSE
  /\ foodsB = spicyFoods
  /\ crashedB = FALSE
  /\ history = << Entry("mount", 0, 0, "", objs, arrs, foods) >>

CanClickB == ~crashedB /\ foodsB # 0 /\ Len(history) <= MaxOps

\* README handleAddFood of the second instance, queue module.
handleAddFoodQueueB ==
  /\ CanClickB
  /\ data = "getNewSpicyFood"
  /\ LET r == getNewSpicyFood(arrs)
         n == addFood(r.arrs, foodsB, r.ret)
     IN  /\ arrs' = n.arrs
         /\ foodsB' = n.foods
         /\ crashedB' = renderThrows(n.arrs[n.foods])
         /\ history' = Append(history,
                         Entry("addB", 0, r.ret, "", objs, n.arrs, n.foods))
  /\ UNCHANGED <<component, data, objs, foods, filterBy, nextId, crashed>>

\* README handleAddFood of the second instance, random module.
handleAddFoodRandomB ==
  /\ CanClickB
  /\ data = "getNewRandomSpicyFood"
  /\ \E index \in 0..(Len(arrs[newSpicyFoods]) - 1) :
       LET r == getNewRandomSpicyFood(objs, arrs, nextId, index)
           n == addFood(arrs, foodsB, r.ret)
       IN  /\ objs' = r.objs
           /\ nextId' = r.nextId
           /\ arrs' = n.arrs
           /\ foodsB' = n.foods
           /\ crashedB' = renderThrows(n.arrs[n.foods])
           /\ history' = Append(history,
                           Entry("addB", 0, r.ret, "", r.objs, n.arrs, n.foods))
  /\ UNCHANGED <<component, data, foods, filterBy, crashed>>

NextShared ==
  \/ handleAddFoodQueue
  \/ handleAddFoodRandom
  \/ handleAddFoodQueueB
  \/ handleAddFoodRandomB

SpecShared == InitShared /\ [][NextShared]_vars

TypeOK ==
  /\ foods \in 1..Len(arrs)
  /\ filterBy \in {FilterOptions[k] : k \in 1..Len(FilterOptions)}
  /\ crashed \in BOOLEAN
  /\ foodsB \in 0..Len(arrs)
  /\ crashedB \in BOOLEAN

----------------------------------------------------------------------------
\* Properties

HasOp(op) == \E h \in 1..Len(history) : history[h].op = op

IdsIn(vals) == {vals[j].id : j \in {m \in 1..Len(vals) : "id" \in DOMAIN vals[m]}}

\* D (with values DV) is the subsequence of C (with values CV) at the
\* positions in keep, in the order of C.
SubseqAt(D, DV, C, CV, keep) ==
  /\ Len(D) = Cardinality(keep)
  /\ \A j \in keep :
       LET rank == Cardinality({m \in keep : m <= j})
       IN  D[rank] = C[j] /\ DV[rank] = CV[j]

\* C1: adding a record whose id is not in the collection publishes a
\* collection one longer, whose last element is that record and whose prefix
\* is the old collection in the same order.
AddAppends ==
  (/\ Len(history) > 1
   /\ Last.op = "add"
   /\ IsRecord(objs, Last.newFood)
   /\ objs[Last.newFood].id \notin IdsIn(Prev.vals))
  => /\ foods = Last.ref
     /\ arrs[foods] = Last.elems
     /\ Len(Last.elems) = Len(Prev.elems) + 1
     /\ Last.elems[Len(Last.elems)] = Last.newFood
     /\ Last.vals[Len(Last.vals)] = objs[Last.newFood]
     /\ SubSeq(Last.elems, 1, Len(Prev.elems)) = Prev.elems
     /\ SubSeq(Last.vals, 1, Len(Prev.vals)) = Prev.vals

AddAppendsWitness ==
  /\ Len(history) > 1
  /\ Last.op = "add"
  /\ IsRecord(objs, Last.newFood)
  /\ objs[Last.newFood].id \notin IdsIn(Prev.vals)
  /\ Len(Prev.elems) >= 3

\* C2: removing id i publishes a collection with no record of id i that
\* holds every other record of the old collection, unchanged, in the same
\* relative order.
RemoveFilters ==
  (Len(history) > 1 /\ Last.op = "remove")
  => /\ foods = Last.ref
     /\ arrs[foods] = Last.elems
     /\ Last.id \notin IdsIn(Last.vals)
     /\ SubseqAt(Last.elems, Last.vals, Prev.elems, Prev.vals,
                 {j \in 1..Len(Prev.elems) : Prev.vals[j].id # Last.id})

RemoveFiltersWitness ==
  /\ Len(history) > 1
  /\ Last.op = "remove"
  /\ Last.id \in IdsIn(Prev.vals)
  /\ Len(Last.elems) >= 2
  /\ Prev.vals[1].id = Last.id

\* C3: updating an id present in the collection publishes a collection of
\* the same length in which the record of that id has heatLevel one higher
\* and id, name and cuisine as before, and every other position holds the
\* same record as before.
UpdateIncrements ==
  (Len(history) > 1 /\ Last.op = "update" /\ Last.id \in IdsIn(Prev.vals))
  => /\ foods = Last.ref
     /\ arrs[foods] = Last.elems
     /\ Len(Last.elems) = Len(Prev.elems)
     /\ \A j \in 1..Len(Prev.elems) :
          IF Prev.vals[j].id = Last.id
            THEN /\ Last.vals[j].heatLevel = Prev.vals[j].heatLevel + 1
                 /\ Last.vals[j].id = Prev.vals[j].id
                 /\ Last.vals[j].name = Prev.vals[j].name
                 /\ Last.vals[j].cuisine = Prev.vals[j].cuisine
                 /\ DOMAIN Last.vals[j] = DOMAIN Prev.vals[j]
            ELSE /\ Last.elems[j] = Prev.elems[j]
                 /\ Last.vals[j] = Prev.vals[j]

UpdateIncrementsWitness ==
  /\ Len(history) > 1
  /\ Last.op = "update"
  /\ Last.id \in IdsIn(Prev.vals)
  /\ Len(Prev.elems) >= 3
  /\ Last.id = 4
  /\ \E h \in 1..(Len(history) - 1) :
       history[h].op = "update" /\ history[h].id = Last.id

\* C4: the displayed list is the subsequence of the collection, in
\* collection order, of the records whose cuisine equals the filter; with
\* the filter "All" it is the whole collection in its order.
ViewProjection ==
  ~crashed
  => /\ SubseqAt(foodsToDisplay, DeepVals(objs, foodsToDisplay),
                 arrs[foods], DeepVals(objs, arrs[foods]),
                 {j \in 1..Len(arrs[foods]) :
                    filterBy = "All" \/ objs[arrs[foods][j]].cuisine = filterBy})
     /\ filterBy = "All" => foodsToDisplay = arrs[foods]

ViewProjectionWitness ==
  /\ ~crashed
  /\ filterBy = "American"
  /\ Len(foodsToDisplay) = 2
  /\ Len(arrs[foods]) = 4
  /\ objs[arrs[foods][2]].cuisine = "Sichuan"

\* C5: no two records of the collection share an id.
IdUnique ==
  \A j, k \in 1..Len(arrs[foods]) :
    (/\ j # k
     /\ IsRecord(objs, arrs[foods][j])
     /\ IsRecord(objs, arrs[foods][k]))
    => objs[arrs[foods][j]].id # objs[arrs[foods][k]].id

IdUniqueWitness ==
  /\ HasOp("add") /\ HasOp("remove") /\ HasOp("update")
  /\ Last.op = "add"
  /\ Len(arrs[foods]) >= 3
  /\ \A j \in 1..Len(arrs[foods]) : IsRecord(objs, arrs[foods][j])

\* C6: an add invoked when the record source has nothing left leaves the
\* collection unchanged, appends no non-record value, and no render fails.
ExhaustedAddIsNoOp ==
  (/\ Len(history) > 1
   /\ Last.op \in {"add", "log"}
   /\ Last.newFood = Undefined)
  => /\ ~crashed
     /\ arrs[foods] = Prev.elems
     /\ \A j \in 1..Len(arrs[foods]) : IsRecord(objs, arrs[foods][j])

\* C7: every collection that was ever the state, the seed array included,
\* still holds the same records in the same order with the same field values.
SnapshotIsolation ==
  \A h \in 1..Len(history) :
    /\ arrs[history[h].ref] = history[h].elems
    /\ DeepVals(objs, arrs[history[h].ref]) = history[h].vals

SnapshotIsolationWitness ==
  /\ HasOp("add") /\ HasOp("remove") /\ HasOp("update")
  /\ Len(history) = 4
  /\ Cardinality({history[h].ref : h \in 1..Len(history)}) = 4
  /\ arrs[spicyFoods] = <<1, 2>>

\* C8: after a click of "Add New Food" the collection contains the record
\* the click drew from the record source.
ClickAddsDrawnFood ==
  (/\ Len(history) > 1
   /\ Last.op \in {"add", "log"}
   /\ Last.newFood # Undefined)
  => \E j \in 1..Len(arrs[foods]) : arrs[foods][j] = Last.newFood

\* C9: remove and update with an id that no record has raise nothing and
\* publish a collection equal to the old one.
MissingIdNoOp ==
  (/\ Len(history) > 1
   /\ Last.op \in {"remove", "update"}
   /\ Last.id \notin IdsIn(Prev.vals))
  => /\ ~crashed
     /\ arrs[foods] = Prev.elems
     /\ DeepVals(objs, arrs[foods]) = Prev.vals

MissingIdNoOpWitness ==
  /\ Len(history) > 2
  /\ Last.op = "update"
  /\ Last.id \notin IdsIn(Prev.vals)
  /\ Prev.op = "remove"
  /\ Prev.id \notin IdsIn(history[Len(history) - 2].vals)
  /\ Len(Prev.elems) >= 3

\* C10: removing the same id a second time in a row leaves the collection
\* as the first removal left it.
RemoveIdempotent ==
  (/\ Len(history) > 2
   /\ Last.op = "remove"
   /\ Prev.op = "remove"
   /\ Last.id = Prev.id)
  => /\ arrs[foods] = Prev.elems
     /\ DeepVals(objs, arrs[foods]) = Prev.vals

RemoveIdempotentWitness ==
  /\ Len(history) > 2
  /\ Last.op = "remove"
  /\ Prev.op = "remove"
  /\ Last.id = Prev.id
  /\ Last.id \in IdsIn(history[Len(history) - 2].vals)
  /\ Len(Last.elems) >= 2

\* The calls made to the record source so far, in order.
Draws == SelectSeq(history, LAMBDA e : e.op \in {"add", "addB", "log"})

\* The setFilterBy calls made so far, in order.
FilterOps == SelectSeq(history, LAMBDA e : e.op = "filter")

\* C11: every call to the record source returns either a record with id,
\* name, cuisine and heatLevel that differs from every record returned
\* before, or nothing because the source is exhausted.
RecordSourceContract ==
  \A k \in 1..Len(Draws) :
    LET r == Draws[k].newFood
    IN  IF r = Undefined
          THEN data = "getNewSpicyFood" /\ arrs[newSpicyFoods] = <<>>
          ELSE /\ DOMAIN objs[r] = {"id", "name", "cuisine", "heatLevel"}
               /\ \A m \in 1..(k - 1) :
                    Draws[m].newFood # Undefined
                    => /\ Draws[m].newFood # r
                       /\ objs[Draws[m].newFood] # objs[r]

RecordSourceContractWitness ==
  /\ data = "getNewRandomSpicyFood"
  /\ Len(Draws) >= 3
  /\ objs[Draws[1].newFood].name = objs[Draws[3].newFood].name

\* C12: the filter always has a value; it is "All" until the first
\* selection and afterwards the argument of the most recent selection.
FilterState ==
  /\ filterBy \in {FilterOptions[k] : k \in 1..Len(FilterOptions)}
  /\ IF Len(FilterOps) = 0
       THEN filterBy = "All"
       ELSE filterBy = FilterOps[Len(FilterOps)].value

FilterStateWitness ==
  /\ Len(FilterOps) >= 3
  /\ FilterOps[1].value = "Mexican"
  /\ FilterOps[2].value = "Thai"
  /\ FilterOps[3].value = "All"
  /\ Last.op = "filter"

\* C13: the queue source returns the pooled records 3, 4, 5 in that order,
\* each once, taking each out of the pool; every later call returns
\* undefined and the pool stays empty.
QueueSource ==
  data = "getNewSpicyFood"
  => /\ \A k \in 1..Len(Draws) :
          IF k <= Len(QueuePoolObjs)
            THEN /\ Draws[k].newFood # Undefined
                 /\ objs[Draws[k].newFood] = QueuePoolObjs[k]
            ELSE Draws[k].newFood = Undefined
     /\ arrs[newSpicyFoods] =
          SubSeq(<<3, 4, 5>>,
                 (IF Len(Draws) < 3 THEN Len(Draws) ELSE 3) + 1, 3)

QueueSourceWitness ==
  /\ data = "getNewSpicyFood"
  /\ Len(Draws) >= 4
  /\ Draws[3].newFood # Undefined
  /\ Draws[4].newFood = Undefined
  /\ arrs[newSpicyFoods] = <<>>

\* C14: the k-th call of the random source returns a record with id 2 + k
\* that is a copy; the pool keeps its three id-less entries and the source
\* is never exhausted.
RandomSource ==
  data = "getNewRandomSpicyFood"
  => /\ \A k \in 1..Len(Draws) :
          /\ IsRecord(objs, Draws[k].newFood)
          /\ objs[Draws[k].newFood].id = 2 + k
          /\ objs[Draws[k].newFood].id \notin {SeedObjs[j].id : j \in 1..Len(SeedObjs)}
          /\ \A j \in 1..Len(arrs[newSpicyFoods]) :
               arrs[newSpicyFoods][j] # Draws[k].newFood
     /\ nextId = InitNextId + Len(Draws)
     /\ Len(arrs[newSpicyFoods]) = Len(RandomPoolObjs)
     /\ DeepVals(objs, arrs[newSpicyFoods]) = RandomPoolObjs

RandomSourceWitness ==
  /\ data = "getNewRandomSpicyFood"
  /\ Len(Draws) >= 4
  /\ objs[Draws[2].newFood].name = objs[Draws[4].newFood].name
  /\ nextId = 7

\* Records an instance's collection holds beyond the seed records.
AddedRefs(f) ==
  {arrs[f][j] : j \in {m \in 1..Len(arrs[f]) :
                         arrs[f][m] # Undefined /\ arrs[f][m] > Len(SeedObjs)}}

\* C15: with two instances drawing from the same module-level source, no
\* drawn id is in both collections, each collection has unique ids, and with
\* the queue source at most three records are added in total.
SharedSourceDisjoint ==
  foodsB # 0
  => /\ \A a \in AddedRefs(foods), b \in AddedRefs(foodsB) :
          objs[a].id # objs[b].id
     /\ \A f \in {foods, foodsB} :
          \A j, k \in 1..Len(arrs[f]) :
            (j # k /\ IsRecord(objs, arrs[f][j]) /\ IsRecord(objs, arrs[f][k]))
            => objs[arrs[f][j]].id # objs[arrs[f][k]].id
     /\ data = "getNewSpicyFood"
        => Cardinality(AddedRefs(foods)) + Cardinality(AddedRefs(foodsB)) <= 3

SharedSourceDisjointWitness ==
  /\ foodsB # 0
  /\ data = "getNewSpicyFood"
  /\ Cardinality(AddedRefs(foods)) = 1
  /\ Cardinality(AddedRefs(foodsB)) = 2
  /\ Len(Draws) = 4
  /\ objs[arrs[foods][3]].id = 4

====
